---------------------------- MODULE Spec2Model ----------------------------
(***************************************************************************)
(* Course catalog web application (app.py): Flask request handlers over a  *)
(* JSON course file, traced with OpenTelemetry spans that two batch span   *)
(* processors hand to a Jaeger exporter and to JSONFileSpanExporter.       *)
(***************************************************************************)
EXTENDS Integers, Sequences, FiniteSets, TLC

\* ------------------------------------------------------------------ bounds
\* Requests the server accepts in one behaviour.
MaxRequests == 2
\* I/O errors the file system injects on the course file in one behaviour.
MaxIoFaults == 1
\* Export calls of the batch span processors in one behaviour.
MaxExports == 2
\* Export calls that fail in one behaviour.
MaxExportFailures == 1

\* Request threads of the server (app.run: one thread per in-flight request).
Workers == {"w1", "w2"}

\* ------------------------------------------------------- course records
\* The keys of a course record, in the order add_course builds the dict.
FieldOrder ==
    <<"code", "name", "instructor", "semester", "schedule", "classroom",
      "prerequisites", "grading", "description">>

\* The fields add_course requires to be non-empty.
RequiredFields == <<"code", "name", "instructor">>

Range(s) == {s[i] : i \in 1..Len(s)}

\* The forms a client posts (request.form, looked up by key): the spec's
\* scenario, a second course, forms with a required field empty, and one
\* with a field left out of the request altogether.
FormCS101 ==
    [code |-> "CS101", name |-> "Intro", instructor |-> "Dr. X",
     semester |-> "Fall", schedule |-> "MWF", classroom |-> "101",
     prerequisites |-> "", grading |-> "Letter",
     description |-> "Intro course"]

FormCS102 ==
    [code |-> "CS102", name |-> "Data Structures", instructor |-> "Dr. Y",
     semester |-> "Spring", schedule |-> "TTh", classroom |-> "202",
     prerequisites |-> "CS101", grading |-> "Letter",
     description |-> "Lists and trees"]

Without(f, k) == [x \in (DOMAIN f) \ {k} |-> f[x]]

Forms ==
    { FormCS101, FormCS102,
      [FormCS101 EXCEPT !.name = ""],
      [FormCS102 EXCEPT !.instructor = ""],
      Without(FormCS102, "semester") }

\* The codes a client asks /course/<code> for.
Codes == {"CS101", "CS102"}

\* A dict: its items <<key, value>> in insertion order, no key twice.
Has(dict, k) == \E i \in 1..Len(dict) : dict[i][1] = k

\* dict[k], where Has(dict, k).
Get(dict, k) == dict[CHOOSE i \in 1..Len(dict) : dict[i][1] = k][2]

\* dict[k] = v
SetItem(dict, k, v) ==
    IF Has(dict, k)
    THEN [i \in 1..Len(dict) |-> IF dict[i][1] = k THEN <<k, v>> ELSE dict[i]]
    ELSE Append(dict, <<k, v>>)

\* The dict add_course builds of a form that carries every field.
Course(form) == [i \in 1..Len(FieldOrder) |-> <<FieldOrder[i], form[FieldOrder[i]]>>]

\* ------------------------------------------------------------------ JSON
RECURSIVE Join(_, _)
Join(parts, sep) ==
    IF parts = <<>> THEN ""
    ELSE IF Len(parts) = 1 THEN parts[1]
    ELSE parts[1] \o sep \o Join(Tail(parts), sep)

\* json.dump of a str with no character to escape (no quote, backslash,
\* control or non-ASCII character), as the keys and the values of Forms are.
DumpString(s) == "\"" \o s \o "\""

\* "key": "value" on a line of its own, indented as a member of a dict
\* inside the list.
DumpMember(item) == "        " \o DumpString(item[1]) \o ": " \o DumpString(item[2])

\* Mutant: members with an empty value are left out of the object.
DumpObjectSkippingEmpty(course) ==
    LET kept == SelectSeq(course, LAMBDA item : item[2] # "")
    IN  IF kept = <<>> THEN "{}"
        ELSE "{\n" \o Join([i \in 1..Len(kept) |-> DumpMember(kept[i])], ",\n")
                   \o "\n    }"

\* json.dump(..., indent=4) of a dict inside the list: its items in
\* insertion order, one member a line.
DumpObject(course) ==
    IF course = <<>> THEN "{}"
    ELSE "{\n" \o Join([i \in 1..Len(course) |-> DumpMember(course[i])], ",\n")
               \o "\n    }"

\* json.dump(courses, file, indent=4): the text written.
JsonDump(courses) ==
    IF courses = <<>> THEN "[]"
    ELSE "[\n" \o Join([i \in 1..Len(courses) |->
                           "    " \o DumpObject(courses[i])], ",\n")
               \o "\n]"

\* The JSON decoder, on the texts writers of this program leave in the
\* course file: an array of objects whose members are strings.  Every such
\* text is made of pieces of two dumps laid over each other from offset 0,
\* so a character of a string's inside is never read outside of a string
\* unless the closing bracket is read inside of one; any other value is
\* answered as a decoding error.
Ch(s, i) == IF i >= 1 /\ i <= Len(s) THEN SubSeq(s, i, i) ELSE ""

Whitespace == {" ", "\n", "\t", "\r"}

\* The index of the first character from i on that is not whitespace (the
\* indentation of a member is passed over in one piece).
RECURSIVE SkipWhitespace(_, _)
SkipWhitespace(s, i) ==
    IF i + 7 <= Len(s) /\ SubSeq(s, i, i + 7) = "        "
    THEN SkipWhitespace(s, i + 8)
    ELSE IF Ch(s, i) \in Whitespace THEN SkipWhitespace(s, i + 1) ELSE i

\* The index of the quote that closes the string whose inside starts at i,
\* 0 when there is none.
RECURSIVE StringEnd(_, _)
StringEnd(s, i) ==
    LET c == Ch(s, i)
    IN  IF c = "" THEN 0
        ELSE IF c = "\"" THEN i
        ELSE IF c \in {"\\", "\n", "\t", "\r"} THEN 0
        ELSE StringEnd(s, i + 1)

\* What a step of the decoder answers: an error, or the value it read and
\* the index behind it.
DecodeError == [ok |-> FALSE, pos |-> 0, val |-> <<>>]

Decoded(pos, val) == [ok |-> TRUE, pos |-> pos, val |-> val]

\* The string whose inside is s[i..j-1].
Inside(s, i, j) ==
    IF j = 0 THEN DecodeError
    ELSE Decoded(j + 1, IF j = i THEN "" ELSE SubSeq(s, i, j - 1))

DecodeString(s, i) ==
    IF Ch(s, i) = "\"" THEN Inside(s, i + 1, StringEnd(s, i + 1)) ELSE DecodeError

\* A member, "key": "value", read step by step: behind its key k the colon,
\* behind the colon the value v.
MemberValue(k, v) ==
    IF v.ok THEN Decoded(v.pos, <<k.val, v.val>>) ELSE DecodeError

MemberColon(s, k, i) ==
    IF Ch(s, i) = ":"
    THEN MemberValue(k, DecodeString(s, SkipWhitespace(s, i + 1)))
    ELSE DecodeError

MemberKey(s, k) ==
    IF k.ok THEN MemberColon(s, k, SkipWhitespace(s, k.pos)) ELSE DecodeError

DecodeMember(s, i) == MemberKey(s, DecodeString(s, i))

RECURSIVE DecodeMembers(_, _, _)
\* Behind a member: the end of the object, or a comma and the next member.
MembersEnd(s, i, acc) ==
    IF Ch(s, i) = "}" THEN Decoded(i + 1, acc)
    ELSE IF Ch(s, i) = "," THEN DecodeMembers(s, SkipWhitespace(s, i + 1), acc)
    ELSE DecodeError

\* The dict with the member read: a member whose key the dict has replaces
\* that item's value.
MembersNext(s, m, acc) ==
    IF m.ok
    THEN MembersEnd(s, SkipWhitespace(s, m.pos), SetItem(acc, m.val[1], m.val[2]))
    ELSE DecodeError

DecodeMembers(s, i, acc) == MembersNext(s, DecodeMember(s, i), acc)

ObjectBody(s, i) ==
    IF Ch(s, i) = "}" THEN Decoded(i + 1, <<>>) ELSE DecodeMembers(s, i, <<>>)

DecodeObject(s, i) ==
    IF Ch(s, i) = "{" THEN ObjectBody(s, SkipWhitespace(s, i + 1)) ELSE DecodeError

RECURSIVE DecodeElements(_, _, _)
\* Behind an element: the end of the array, or a comma and the next element.
ElementsEnd(s, i, acc) ==
    IF Ch(s, i) = "]" THEN Decoded(i + 1, acc)
    ELSE IF Ch(s, i) = "," THEN DecodeElements(s, SkipWhitespace(s, i + 1), acc)
    ELSE DecodeError

ElementsNext(s, e, acc) ==
    IF e.ok THEN ElementsEnd(s, SkipWhitespace(s, e.pos), Append(acc, e.val))
    ELSE DecodeError

DecodeElements(s, i, acc) == ElementsNext(s, DecodeObject(s, i), acc)

ArrayBody(s, i) ==
    IF Ch(s, i) = "]" THEN Decoded(i + 1, <<>>) ELSE DecodeElements(s, i, <<>>)

DecodeArray(s, i) ==
    IF Ch(s, i) = "[" THEN ArrayBody(s, SkipWhitespace(s, i + 1)) ELSE DecodeError

\* The whole text is one array, whitespace around it.
WholeText(s, a) ==
    IF a.ok /\ SkipWhitespace(s, a.pos) = Len(s) + 1 THEN a ELSE DecodeError

\* json.load(file): the list of dicts the text decodes to, or an error.
JsonLoad(s) == WholeText(s, DecodeArray(s, SkipWhitespace(s, 1)))

\* ----------------------------------------------------------- course file
\* COURSE_FILE: absent, or its text.
AbsentFile == [exists |-> FALSE, text |-> ""]

TextFile(text) == [exists |-> TRUE, text |-> text]

\* The first n characters of text, the characters from m on.
Front(text, n) == IF n = 0 THEN "" ELSE SubSeq(text, 1, n)
Rest(text, m) == IF m > Len(text) THEN "" ELSE SubSeq(text, m, Len(text))

\* Mutant: the writer adds its last record to the catalog it finds.
WriteMerging(f, text, n) ==
    IF JsonLoad(f.text).ok /\ n = Len(text)
    THEN TextFile(JsonDump(JsonLoad(f.text).val
                           \o SubSeq(JsonLoad(text).val, Len(JsonLoad(text).val),
                                     Len(JsonLoad(text).val))))
    ELSE IF n = 0 THEN f
    ELSE TextFile(Front(text, n) \o Rest(f.text, n + 1))

\* The file after a writer has written the first n characters of `text`
\* from offset 0, where its open() left it, over what is in the file now:
\* these characters, followed by what a longer text of another writer has
\* beyond them; a writer that writes nothing leaves the file as it is.
WriteOver(f, text, n) ==
    IF n = 0 THEN f ELSE TextFile(Front(text, n) \o Rest(f.text, n + 1))

\* A catalog two racing writers left: the dump of two records, cut off behind
\* the indentation of the second record's first member, over the dump of one
\* longer record.  It decodes to the first record and a dict without items.
HybridCatalog ==
    LET written == "[\n    " \o DumpObject(Course(FormCS101)) \o ",\n    {\n        "
    IN  written \o Rest(JsonDump(<<Course(FormCS102)>>), Len(written) + 1)

\* ---------------------------------------------------------------- tracing
\* The span processors, in the order they were added to the tracer provider.
Processors == <<"jaeger", "json">>

NoAttributes == [k \in {} |-> ""]

Put(f, k, v) == [x \in (DOMAIN f) \cup {k} |-> IF x = k THEN v ELSE f[x]]

\* A tracing context: the spans the calling thread started for its request
\* (by span id), its stack of current spans, and the processors' queues.
Tracing(mySpans, myStack, queues) ==
    [spans |-> mySpans, stack |-> myStack, queue |-> queues]

CurrentSpan(t) == t.stack[Len(t.stack)]

\* tracer.start_as_current_span(name, kind): a new span, child of the
\* current one, made current.  `ends` counts the calls of end(), `late` the
\* attribute, event and status calls that arrive after the first end().
StartSpan(t, name, kind) ==
    LET span == [name |-> name, kind |-> kind,
                 parent |-> IF t.stack = <<>> THEN 0 ELSE CurrentSpan(t),
                 status |-> "UNSET", attrs |-> NoAttributes,
                 events |-> <<>>, ends |-> 0, late |-> 0,
                 id |-> Len(t.spans) + 1]
    IN  [t EXCEPT !.spans = Append(@, span),
                  !.stack = Append(@, Len(t.spans) + 1)]

SetAttribute(t, id, key, value) ==
    IF t.spans[id].ends > 0
    THEN [t EXCEPT !.spans[id].late = @ + 1]
    ELSE [t EXCEPT !.spans[id].attrs = Put(@, key, value)]

SetStatus(t, id, code) ==
    IF t.spans[id].ends > 0
    THEN [t EXCEPT !.spans[id].late = @ + 1]
    ELSE [t EXCEPT !.spans[id].status = code]

\* An event is <<name, exception text>>.
AppendEvent(t, id, event) ==
    IF t.spans[id].ends > 0
    THEN [t EXCEPT !.spans[id].late = @ + 1]
    ELSE [t EXCEPT !.spans[id].events = Append(@, event)]

AddEvent(t, id, name) == AppendEvent(t, id, <<name, "">>)

RecordException(t, id, exc) == AppendEvent(t, id, <<"exception", exc>>)

\* BatchSpanProcessor.on_end for every registered processor, in
\* registration order: the ended span joins each processor's queue.
OnEnd(t, id) ==
    [t EXCEPT !.queue = [p \in Range(Processors) |-> Append(@[p], t.spans[id])]]

\* Leaving a `with tracer.start_as_current_span(...)` block: the current
\* span is ended (once) and the enclosing span is current again.
EndSpan(t) ==
    LET id == CurrentSpan(t)
        popped == [t EXCEPT !.stack = SubSeq(@, 1, Len(@) - 1),
                            !.spans[id].ends = @ + 1]
    IN  IF t.spans[id].ends > 0 THEN popped ELSE OnEnd(popped, id)

\* Leaving the block by an exception: start_as_current_span records the
\* exception and sets the status before the span ends.
EndSpanRaising(t, exc) ==
    LET id == CurrentSpan(t)
    IN  EndSpan(SetStatus(RecordException(t, id, exc), id, "ERROR"))

\* FlaskInstrumentor().instrument_app(app): before a request is dispatched
\* its hook starts the request's SERVER span and makes it current, so that
\* the handler's spans are its children.  The name is the library's (the
\* method and the URL rule); the attributes it copies from the WSGI
\* environment are not kept.
BeforeRequest(t, method, rule) == StartSpan(t, method \o " " \o rule, "SERVER")

\* The hook that runs when the request is torn down ends the request span.
TeardownRequest(t) == EndSpan(t)

\* ------------------------------------------------------------- responses
Response(status, kind, target, data, flashes) ==
    [status |-> status, kind |-> kind, target |-> target, data |-> data,
     flashes |-> flashes]

NoResponse == Response(0, "none", "", <<>>, <<>>)

RenderTemplate(template, data, flashes) ==
    Response(200, "render", template, data, flashes)

Redirect(endpoint, flashes) == Response(302, "redirect", endpoint, <<>>, flashes)

\* ------------------------------------------------------- file operations
\* What load_courses() is about to return: the tracing context with its span
\* still open, the list, and the exception its except branch caught.
Loading(t, courses, error) == [t |-> t, courses |-> courses, error |-> error]

\* load_courses: the except branch.
LoadCoursesFailed(t, exc) ==
    Loading(SetStatus(RecordException(t, CurrentSpan(t), exc), CurrentSpan(t), "ERROR"),
            <<>>, exc)

\* load_courses: the file is open, json.load reads and decodes its text.
LoadCoursesRead(t, loaded) ==
    IF loaded.ok THEN Loading(t, loaded.val, "")
    ELSE LoadCoursesFailed(t, "JSONDecodeError")

\* ensure_directory_exists(COURSE_FILE): the exception os.makedirs raises
\* when the file system makes it fail, "" when it returns.
EnsureDirectoryExists(fault) == IF fault = "makedirs" THEN "OSError" ELSE ""

\* os.path.exists(COURSE_FILE): whether the stat finds the file.  A stat
\* that fails ("stat") raises nothing: the answer is False, whatever is there.
PathExists(f, fault) == f.exists /\ fault # "stat"

\* Mutant: no os.path.exists check, open() raises on the absent file.
LoadCoursesUnchecked(t, f, fault) ==
    LET t1 == StartSpan(t, "load_courses", "INTERNAL")
        t2 == SetAttribute(t1, CurrentSpan(t1), "course.file_exists", TRUE)
    IN  IF EnsureDirectoryExists(fault) # ""
        THEN LoadCoursesFailed(t1, EnsureDirectoryExists(fault))
        ELSE IF ~f.exists THEN LoadCoursesFailed(t1, "FileNotFoundError")
        ELSE IF fault = "open" THEN LoadCoursesFailed(t1, "OSError")
        ELSE IF fault = "read" THEN LoadCoursesFailed(t2, "OSError")
        ELSE LoadCoursesRead(t2, JsonLoad(f.text))

\* load_courses() up to its return statement, on course file f.  `fault`
\* is the call the file system makes fail: "makedirs" (os.makedirs
\* raises), "stat" (the stat of os.path.exists fails), "open" (open()
\* raises), "read" (the read of json.load raises), or "" (none).
LoadCourses(t, f, fault) ==
    LET t1 == StartSpan(t, "load_courses", "INTERNAL")
        t2 == SetAttribute(t1, CurrentSpan(t1), "course.file_exists", TRUE)
    IN  IF EnsureDirectoryExists(fault) # ""
        THEN LoadCoursesFailed(t1, EnsureDirectoryExists(fault))
        ELSE IF ~PathExists(f, fault)
        THEN Loading(SetAttribute(t1, CurrentSpan(t1), "course.file_exists", FALSE),
                     <<>>, "")
        ELSE IF fault = "open" THEN LoadCoursesFailed(t1, "OSError")
        ELSE IF fault = "read" THEN LoadCoursesFailed(t2, "OSError")
        ELSE LoadCoursesRead(t2, JsonLoad(f.text))

\* save_courses(data) up to the return statement of its load_courses()
\* call: the save_course span is open, the load_courses span current.
\* With fault "save_makedirs" its own ensure_directory_exists raises:
\* load_courses() is not called, and the except branch is next.
SaveCoursesLoad(t, f, fault) ==
    LET t1 == StartSpan(t, "save_course", "INTERNAL")
    IN  IF fault = "save_makedirs" THEN Loading(t1, <<>>, "")
        ELSE LoadCourses(t1, f, fault)

\* Mutant: courses.insert(0, data)
PrependCourse(courses, data) == <<data>> \o courses

\* save_courses: courses.append(data)
AppendCourse(courses, data) == Append(courses, data)

\* save_courses: the except branch, then the end of the save_course span.
SaveCoursesFailed(t, exc) ==
    LET id == CurrentSpan(t)
        t1 == RecordException(t, id, exc)
        t2 == SetStatus(t1, id, "ERROR")
        t3 == SetAttribute(t2, id, "course.saved", FALSE)
    IN  EndSpan(t3)

\* save_courses: after the file was closed, to the end of the span.
SaveCoursesDone(t) ==
    EndSpan(SetAttribute(t, CurrentSpan(t), "course.saved", TRUE))

\* --------------------------------------------------------------- handlers
RequestAttributes(t, id, method, url) ==
    LET t1 == SetAttribute(t, id, "http.method", method)
        t2 == SetAttribute(t1, id, "http.url", url)
    IN  SetAttribute(t2, id, "user.ip", "127.0.0.1")

\* What a handler leaves when it returns.
Handled(t, resp) == [t |-> t, resp |-> resp]

\* course_catalog up to the return statement of its load_courses() call.
CourseCatalog(t, f, fault) ==
    LET t1 == StartSpan(t, "course_catalog", "SERVER")
        span == CurrentSpan(t1)
        t2 == SetAttribute(SetAttribute(t1, span, "http.method", "GET"),
                           span, "http.url", "/catalog")
        t3 == SetAttribute(t2, span, "http.status_code", 200)
        t4 == SetAttribute(t3, span, "user.ip", "127.0.0.1")
    IN  LoadCourses(StartSpan(t4, "load_courses", "INTERNAL"), f, fault)

\* course_catalog, load_courses() has returned: the count and the end of the
\* handler's own load_courses span.
CourseCatalogCount(t, courses) ==
    EndSpan(IF courses # <<>>
            THEN SetAttribute(t, t.stack[Len(t.stack) - 1], "course.count", Len(courses))
            ELSE t)

\* course_catalog: the page and the end of the course_catalog span.
CourseCatalogRespond(t, courses) ==
    Handled(EndSpan(t), RenderTemplate("course_catalog.html", courses, <<>>))

NotFoundFlash(code) == <<"error", "No course found with code '", code, "'.">>

ErrorFlash == <<"error", "An error occurred.", "", "">>

\* course_details: the branch taken when no course has the code.
CourseNotFound(t, code) ==
    LET span == CurrentSpan(t)
        t1 == SetStatus(t, span, "ERROR")
        t2 == RecordException(t1, span, "Course not found: " \o code)
        t3 == SetAttribute(t2, span, "http.status_code", 404)
    IN  Handled(EndSpan(t3), Redirect("course_catalog", <<NotFoundFlash(code)>>))

\* course_details: the except branch.
CourseDetailsFailed(t, exc) ==
    LET span == CurrentSpan(t)
    IN  Handled(EndSpan(RecordException(SetStatus(t, span, "ERROR"), span, exc)),
                Redirect("index", <<ErrorFlash>>))

\* course_details up to the return statement of its load_courses() call.
CourseDetailsLoad(t, f, fault, code) ==
    LET t1 == StartSpan(t, "course_details", "SERVER")
    IN  LoadCourses(RequestAttributes(t1, CurrentSpan(t1), "GET", "/course/" \o code),
                    f, fault)

\* next((course for course in courses if course['code'] == code), None),
\* from the i-th course on: the index of the first course with the code, 0
\* when the courses run out, -1 when course['code'] raises KeyError first.
RECURSIVE FirstWithCode(_, _, _)
FirstWithCode(courses, code, i) ==
    IF i > Len(courses) THEN 0
    ELSE IF ~Has(courses[i], "code") THEN 0 - 1
    ELSE IF Get(courses[i], "code") = code THEN i
    ELSE FirstWithCode(courses, code, i + 1)

\* course_details: the course found.
CourseFound(t, course) ==
    LET span == CurrentSpan(t)
        t1 == SetAttribute(t, span, "http.status_code", 200)
        t2 == SetAttribute(t1, span, "course.code", Get(course, "code"))
    IN  IF ~Has(course, "name") THEN CourseDetailsFailed(t2, "KeyError")
        ELSE Handled(EndSpan(SetAttribute(t2, span, "course.name", Get(course, "name"))),
                     RenderTemplate("course_details.html", <<course>>, <<>>))

\* course_details after load_courses() returned, i the answer of next(...).
CourseDetailsOf(t, courses, code, i) ==
    IF i < 0 THEN CourseDetailsFailed(t, "KeyError")
    ELSE IF i = 0 THEN CourseNotFound(t, code)
    ELSE CourseFound(t, courses[i])

CourseDetails(t, courses, code) ==
    CourseDetailsOf(t, courses, code, FirstWithCode(courses, code, 1))

ManualTrace(t) ==
    LET t1 == StartSpan(t, "manual-span", "SERVER")
        span == CurrentSpan(t1)
        t2 == SetAttribute(SetAttribute(t1, span, "http.method", "GET"),
                           span, "http.url", "/manual-trace")
        t3 == SetAttribute(t2, span, "http.status_code", 200)
        t4 == AddEvent(t3, span, "Processing request")
    IN  Handled(EndSpan(t4), Response(200, "text", "Manual trace recorded!", <<>>, <<>>))

RequiredFlash ==
    <<"error", "All fields (course code, name, and instructor) are required.",
      "", "">>

AddedFlash(course) ==
    <<"success", "Course '", Get(course, "name"), "' added successfully!">>

\* index
Index(t) == Handled(t, RenderTemplate("index.html", <<>>, <<>>))

\* auto_instrumented
AutoInstrumented(t) ==
    Handled(t, Response(200, "text", "This route is auto-instrumented!", <<>>, <<>>))

\* What add_course has come to: `step` is "abort" (request.form[...] raised
\* for a key the request does not carry: the framework answers 400),
\* "invalid" (a required field is empty) or "save" (the course is built and
\* save_courses is to be called).
Validated(step, t, course, resp) ==
    [step |-> step, t |-> t, course |-> course, resp |-> resp]

\* add_course, POST, up to the call of save_courses.
AddCourseValidate(t, form) ==
    LET t1 == StartSpan(t, "add_course", "SERVER")
        span == CurrentSpan(t1)
        t2 == RequestAttributes(t1, span, "POST", "/add_course")
        aborted == Validated("abort", EndSpanRaising(t2, "BadRequestKeyError"), <<>>,
                             Response(400, "abort", "Bad Request", <<>>, <<>>))
    IN  IF ~(Range(RequiredFields) \subseteq DOMAIN form) THEN aborted
        ELSE IF \E k \in Range(RequiredFields) : form[k] = ""
        THEN LET t3 == SetStatus(t2, span, "ERROR")
                 t4 == SetAttribute(t3, span, "http.status_code", 400)
             IN  Validated("invalid", EndSpan(t4), <<>>,
                           RenderTemplate("add_course.html", <<>>, <<RequiredFlash>>))
        ELSE IF ~(Range(FieldOrder) \subseteq DOMAIN form) THEN aborted
        ELSE LET t3 == SetAttribute(t2, span, "http.status_code", 200)
                 t4 == SetAttribute(t3, span, "course.code", form["code"])
                 t5 == SetAttribute(t4, span, "course.name", form["name"])
             IN  Validated("save", t5, Course(form), NoResponse)

\* Mutant: the status code attribute is set after the with block.
AddCourseRespondLate(t, course) ==
    Handled(SetAttribute(EndSpan(t), CurrentSpan(t), "http.status_code", 302),
            Redirect("course_catalog", <<AddedFlash(course)>>))

\* add_course after save_courses returned: the flash, the redirect and the
\* end of the add_course span.
AddCourseRespond(t, course) ==
    Handled(EndSpan(t), Redirect("course_catalog", <<AddedFlash(course)>>))

\* ------------------------------------------------------------------ state
VARIABLES
    file,        \* COURSE_FILE
    spans,       \* each request thread's spans of its request, by span id
    queue,       \* each batch span processor's queue of ended spans
    exported,    \* what became of the batch of each processor's last export
    spanLog,     \* SPAN_LOG_FILE: its end, the document appended last
    stack,       \* each request thread's stack of current spans
    pc,          \* each request thread's position in its handler
    frame,       \* each request thread's request and locals
    resp,        \* each request thread's response to its request
    enabled,     \* the request threads the deployment runs
    reqLeft,     \* requests still to arrive
    ioLeft,      \* I/O errors still to be injected
    flushLeft,   \* export calls still to be made
    exportLeft,  \* export failures still to be injected
    submitted    \* the records of the dumps written whole, in the order written

vars ==
    <<file, spans, queue, exported, spanLog, stack, pc, frame, resp, enabled, reqLeft,
      ioLeft, flushLeft, exportLeft, submitted>>

\* A thread's request and locals: the request's number, the route, its
\* argument (form or code), save_courses' data and courses, the list its
\* load_courses() call returned, the course file as that call read it, and
\* the errors that hit the request: the call of load_courses() that was
\* made to fail, the exception load_courses caught, and whether the try
\* block of save_courses raised (its os.makedirs, its open() or the write).
Frame(serial, route, form, code, course, courses, stored, found, readFault, readError, writeFault) ==
    [serial |-> serial, route |-> route, form |-> form, code |-> code,
     course |-> course, courses |-> courses, stored |-> stored, found |-> found,
     readFault |-> readFault, readError |-> readError, writeFault |-> writeFault]

NoFrame ==
    Frame(0, "", NoAttributes, "", <<>>, <<>>, <<>>, AbsentFile, "", "", FALSE)

\* The catalog files a start of the server can find: none, one a crash
\* left truncated, an empty catalog, a catalog of one course, and one that
\* two racing writers left.
InitFiles ==
    { AbsentFile, TextFile(""), TextFile(JsonDump(<<>>)),
      TextFile(JsonDump(<<Course(FormCS101)>>)), TextFile(HybridCatalog) }

InitWith(files, threads, faults, flushes, failures) ==
    /\ file \in files
    /\ spans = [w \in Workers |-> <<>>]
    /\ queue = [p \in Range(Processors) |-> <<>>]
    /\ exported = [p \in Range(Processors) |-> "none"]
    /\ spanLog = <<>>
    /\ stack = [w \in Workers |-> <<>>]
    /\ pc = [w \in Workers |-> "idle"]
    /\ frame = [w \in Workers |-> NoFrame]
    /\ resp = [w \in Workers |-> NoResponse]
    /\ enabled = threads
    /\ reqLeft = MaxRequests
    /\ ioLeft = faults
    /\ flushLeft = flushes
    /\ exportLeft = failures
    /\ submitted = <<>>

Init == InitWith(InitFiles, Workers, MaxIoFaults, MaxExports, MaxExportFailures)

\* One request thread, a file system that raises no error.
InitSingle == InitWith(InitFiles, {"w1"}, 0, MaxExports, MaxExportFailures)

\* The same, and no catalog file yet.
InitFresh == InitWith({AbsentFile}, {"w1"}, 0, MaxExports, MaxExportFailures)

\* Two request threads, a file system that raises no error, one export
\* call, which returns.
InitRace == InitWith(InitFiles, Workers, 0, 1, 0)

\* One request thread, a file system that injects I/O errors, one export
\* call, which returns.  The server finds no catalog file, a catalog of one
\* course, or the one two racing writers left; a failed write leaves the
\* truncated ones.
InitFaulty ==
    InitWith({AbsentFile, TextFile(JsonDump(<<Course(FormCS101)>>)),
              TextFile(HybridCatalog)},
             {"w1"}, MaxIoFaults, 1, 0)

\* ---------------------------------------------------------------- actions
Accepts(w) == w \in enabled /\ pc[w] = "idle" /\ reqLeft > 0

\* The call of load_courses() that fails, "" for none: the file system's
\* choice.  open() and the read are reached on a file that exists.
ReadFaults ==
    IF ioLeft = 0 THEN {""}
    ELSE IF file.exists THEN {"", "makedirs", "stat", "open", "read"}
    ELSE {"", "makedirs", "stat"}

\* The same for save_courses up to the return of its load_courses() call,
\* where its own os.makedirs can raise first.
SaveFaults == IF ioLeft = 0 THEN {""} ELSE ReadFaults \cup {"save_makedirs"}

\* Whether open() of the course file for writing, or the write to it,
\* raises.
WriteFaults == IF ioLeft > 0 THEN BOOLEAN ELSE {FALSE}

Injected(raised) == IF raised THEN ioLeft - 1 ELSE ioLeft

\* The tracing context of a thread that starts on a request: the request
\* span is open.
Fresh(w, method, rule) == BeforeRequest(Tracing(<<>>, <<>>, queue), method, rule)

\* The tracing context of a thread in the middle of its request.
Current(w) == Tracing(spans[w], stack[w], queue)

Traced(w, t) ==
    /\ spans' = [spans EXCEPT ![w] = t.spans]
    /\ queue' = t.queue
    /\ stack' = [stack EXCEPT ![w] = t.stack]

\* A request that is answered without a look at the course file: accepted
\* and run to the return of its handler in one step.
Answer(w, route, form, handled) ==
    /\ Traced(w, handled.t)
    /\ resp' = [resp EXCEPT ![w] = handled.resp]
    /\ pc' = [pc EXCEPT ![w] = "request_end"]
    /\ frame' = [frame EXCEPT ![w] =
                    Frame(reqLeft, route, form, "", <<>>, <<>>, <<>>, AbsentFile,
                          "", "", FALSE)]
    /\ reqLeft' = reqLeft - 1
    /\ UNCHANGED <<file, exported, spanLog, enabled, ioLeft, flushLeft, exportLeft,
                   submitted>>

\* A request whose handler calls load_courses(): accepted, and run up to the
\* return statement of load_courses(), the course file read; or, when the
\* os.makedirs of save_courses raised, up to its except branch.
Load(w, route, form, code, course, loading, fault) ==
    /\ Traced(w, loading.t)
    /\ pc' = [pc EXCEPT ![w] =
                 IF fault = "save_makedirs" THEN "save_return" ELSE "load_return"]
    /\ frame' = [frame EXCEPT ![w] =
                    Frame(reqLeft, route, form, code, course, loading.courses,
                          loading.courses, file,
                          IF fault = "save_makedirs" THEN "" ELSE fault,
                          loading.error, fault = "save_makedirs")]
    /\ resp' = [resp EXCEPT ![w] = NoResponse]
    /\ reqLeft' = reqLeft - 1
    /\ ioLeft' = Injected(fault # "")
    /\ UNCHANGED <<file, exported, spanLog, enabled, flushLeft, exportLeft, submitted>>

\* A step inside a handler that ends a span and goes on at `next`.
Step(w, t, next) ==
    /\ Traced(w, t)
    /\ pc' = [pc EXCEPT ![w] = next]
    /\ UNCHANGED <<file, exported, spanLog, frame, resp, enabled, reqLeft, ioLeft,
                   flushLeft, exportLeft, submitted>>

\* The last step of a handler: its span ends and the response is returned.
Return(w, handled) ==
    /\ Traced(w, handled.t)
    /\ resp' = [resp EXCEPT ![w] = handled.resp]
    /\ pc' = [pc EXCEPT ![w] = "request_end"]
    /\ UNCHANGED <<file, exported, spanLog, frame, enabled, reqLeft, ioLeft, flushLeft,
                   exportLeft, submitted>>

\* GET /
IndexRequest(w) ==
    /\ Accepts(w)
    /\ Answer(w, "index", NoAttributes, Index(Fresh(w, "GET", "/")))

\* GET /auto-instrumented
AutoInstrumentedRequest(w) ==
    /\ Accepts(w)
    /\ Answer(w, "auto_instrumented", NoAttributes, AutoInstrumented(Fresh(w, "GET", "/auto-instrumented")))

\* GET /add_course
AddCourseForm(w) ==
    /\ Accepts(w)
    /\ Answer(w, "add_course_form", NoAttributes,
              Handled(Fresh(w, "GET", "/add_course"),
                      RenderTemplate("add_course.html", <<>>, <<>>)))

\* GET /manual-trace
ManualTraceRequest(w) ==
    /\ Accepts(w)
    /\ Answer(w, "manual_trace", NoAttributes, ManualTrace(Fresh(w, "GET", "/manual-trace")))

\* GET /catalog, to the return statement of load_courses().
CourseCatalogRequest(w) ==
    /\ Accepts(w)
    /\ \E fault \in ReadFaults :
          Load(w, "course_catalog", NoAttributes, "", <<>>,
               CourseCatalog(Fresh(w, "GET", "/catalog"), file, fault), fault)

\* GET /course/<code>, to the return statement of load_courses().
CourseDetailsRequest(w) ==
    /\ Accepts(w)
    /\ \E code \in Codes, fault \in ReadFaults :
          Load(w, "course_details", NoAttributes, code, <<>>,
               CourseDetailsLoad(Fresh(w, "GET", "/course/<code>"), file, fault, code),
               fault)

\* POST /add_course: the validation, which answers a form it rejects, and
\* for any other form save_courses to the return statement of load_courses().
AddCoursePost(w) ==
    /\ Accepts(w)
    /\ \E form \in Forms, fault \in SaveFaults :
          LET checked == AddCourseValidate(Fresh(w, "POST", "/add_course"), form)
          IN  IF checked.step # "save"
              THEN /\ fault = ""
                   /\ Answer(w, "add_course", form, Handled(checked.t, checked.resp))
              ELSE Load(w, "add_course", form, "", checked.course,
                        SaveCoursesLoad(checked.t, file, fault), fault)

\* load_courses() returns: its span ends, the caller goes on.
LoadReturn(w) ==
    /\ pc[w] = "load_return"
    /\ Step(w, EndSpan(Current(w)),
            CASE frame[w].route = "course_catalog" -> "catalog_count"
              [] frame[w].route = "course_details" -> "details_respond"
              [] frame[w].route = "add_course" -> "save_open")

\* course_catalog: the course count, the end of its load_courses span.
CatalogCount(w) ==
    /\ pc[w] = "catalog_count"
    /\ Step(w, CourseCatalogCount(Current(w), frame[w].courses), "catalog_respond")

\* course_catalog: the page is rendered and returned.
CatalogRespond(w) ==
    /\ pc[w] = "catalog_respond"
    /\ Return(w, CourseCatalogRespond(Current(w), frame[w].courses))

\* course_details: the course is looked up and the answer returned.
DetailsRespond(w) ==
    /\ pc[w] = "details_respond"
    /\ Return(w, CourseDetails(Current(w), frame[w].courses, frame[w].code))

\* save_courses: courses.append(data), then open(COURSE_FILE, 'w'), which
\* truncates the file or raises.
SaveOpen(w) ==
    /\ pc[w] = "save_open"
    /\ \E fault \in WriteFaults :
          /\ frame' = [frame EXCEPT ![w].courses = AppendCourse(@, frame[w].course),
                                    ![w].writeFault = fault]
          /\ file' = IF fault THEN file ELSE TextFile("")
          /\ pc' = [pc EXCEPT ![w] = IF fault THEN "save_return" ELSE "save_dump"]
          /\ ioLeft' = Injected(fault)
    /\ UNCHANGED <<spans, queue, exported, spanLog, stack, resp, enabled, reqLeft,
                   flushLeft, exportLeft, submitted>>

\* save_courses: json.dump(courses, file, indent=4) and the close of the
\* file, which write the text, or write its first n characters and raise.
SaveDump(w) ==
    /\ pc[w] = "save_dump"
    /\ \E fault \in WriteFaults :
          /\ frame' = [frame EXCEPT ![w].writeFault = fault]
          /\ IF fault
             THEN /\ \E n \in 0..(Len(JsonDump(frame[w].courses)) - 1) :
                        file' = WriteOver(file, JsonDump(frame[w].courses), n)
                  /\ submitted' = submitted
             ELSE /\ file' = WriteOver(file, JsonDump(frame[w].courses),
                                       Len(JsonDump(frame[w].courses)))
                  /\ submitted' = Append(submitted, frame[w].course)
          /\ ioLeft' = Injected(fault)
    /\ pc' = [pc EXCEPT ![w] = "save_return"]
    /\ UNCHANGED <<spans, queue, exported, spanLog, stack, resp, enabled, reqLeft,
                   flushLeft, exportLeft>>

\* save_courses returns, by its last statements or by its except branch:
\* the save_course span ends.
SaveReturn(w) ==
    /\ pc[w] = "save_return"
    /\ Step(w, IF frame[w].writeFault THEN SaveCoursesFailed(Current(w), "OSError")
               ELSE SaveCoursesDone(Current(w)),
            "add_respond")

\* add_course: the flash and the redirect are returned.
AddRespond(w) ==
    /\ pc[w] = "add_respond"
    /\ Return(w, AddCourseRespond(Current(w), frame[w].course))

\* The request is torn down: the request span ends, the thread is free.
RequestEnd(w) ==
    /\ pc[w] = "request_end"
    /\ Step(w, TeardownRequest(Current(w)), "idle")

\* JSONFileSpanExporter._convert_span_to_dict
ConvertSpanToDict(span) ==
    [name |-> span.name,
     context |-> [span_id |-> span.id],
     kind |-> "SpanKind." \o span.kind,
     parent_id |-> span.parent,
     status |-> [status_code |-> "StatusCode." \o span.status],
     attributes |-> span.attrs,
     events |-> span.events]

\* A document of the span log: the dict it is the dump of, and whether all
\* of its text is there.
Document(dict, whole) == [dict |-> dict, whole |-> whole]

\* JSONFileSpanExporter.export: every span of the batch is converted, then
\* the documents are appended to the span log one after the other, a
\* newline behind each.  `done` documents are written whole; when `torn`,
\* the write raises inside the next one.  The log is kept by its end, the
\* document written last.
JsonExport(log, batch, done, torn) ==
    LET dicts == [i \in 1..Len(batch) |-> ConvertSpanToDict(batch[i])]
        written == log \o [i \in 1..done |-> Document(dicts[i], TRUE)]
                       \o (IF torn THEN <<Document(dicts[done + 1], FALSE)>>
                           ELSE <<>>)
    IN  IF written = <<>> THEN <<>>
        ELSE SubSeq(written, Len(written), Len(written))

\* Whether an export call raises (the span log cannot be opened or written,
\* the agent cannot be reached): the environment's choice.
ExportFaults == IF exportLeft > 0 THEN BOOLEAN ELSE {FALSE}

\* Where the json exporter's call that raises stops: the documents written
\* whole before it (all of them when the write of the last newline raises)
\* and whether the next one is cut off.
ExportCuts(batch) ==
    {cut \in (0..Len(batch)) \X BOOLEAN : cut[1] = Len(batch) => ~cut[2]}

\* Mutant: one processor for both exporters, so that a batch one export
\* call fails on is lost to the other exporter too.
SharedQueueAfterExport(p, failed) ==
    IF failed THEN [q \in Range(Processors) |-> <<>>]
    ELSE [queue EXCEPT ![p] = <<>>]

\* The queues after processor p's export: each exporter has a processor and
\* a queue of its own, and p's batch leaves p's queue alone.
QueuesAfterExport(p, failed) == [queue EXCEPT ![p] = <<>>]

\* A batch span processor's worker thread exports its queue.  An exception
\* of the exporter ends in the worker thread: the batch is dropped, and
\* what the exporter had written of it stays in the span log.
Export(p) ==
    /\ queue[p] # <<>>
    /\ flushLeft > 0
    /\ \E failed \in ExportFaults :
          /\ queue' = QueuesAfterExport(p, failed)
          /\ exported' = [exported EXCEPT ![p] =
                             IF failed THEN "Dropped" ELSE "Exported"]
          /\ IF p # "json" THEN spanLog' = spanLog
             ELSE IF ~failed
             THEN spanLog' = JsonExport(spanLog, queue[p], Len(queue[p]), FALSE)
             ELSE \E cut \in ExportCuts(queue[p]) :
                     spanLog' = JsonExport(spanLog, queue[p], cut[1], cut[2])
          /\ exportLeft' = IF failed THEN exportLeft - 1 ELSE exportLeft
    /\ flushLeft' = flushLeft - 1
    /\ UNCHANGED <<file, spans, stack, pc, frame, resp, enabled, reqLeft, ioLeft,
                   submitted>>

Next ==
    \/ \E w \in Workers : IndexRequest(w)
    \/ \E w \in Workers : AutoInstrumentedRequest(w)
    \/ \E w \in Workers : AddCourseForm(w)
    \/ \E w \in Workers : ManualTraceRequest(w)
    \/ \E w \in Workers : CourseCatalogRequest(w)
    \/ \E w \in Workers : CourseDetailsRequest(w)
    \/ \E w \in Workers : AddCoursePost(w)
    \/ \E w \in Workers : LoadReturn(w)
    \/ \E w \in Workers : CatalogCount(w)
    \/ \E w \in Workers : CatalogRespond(w)
    \/ \E w \in Workers : DetailsRespond(w)
    \/ \E w \in Workers : SaveOpen(w)
    \/ \E w \in Workers : SaveDump(w)
    \/ \E w \in Workers : SaveReturn(w)
    \/ \E w \in Workers : AddRespond(w)
    \/ \E w \in Workers : RequestEnd(w)
    \/ \E p \in Range(Processors) : Export(p)

Spec == Init /\ [][Next]_vars

\* Single-writer conditions: one request thread, no injected I/O error.
SpecSingle == InitSingle /\ [][Next]_vars

\* Single-writer conditions on a server that starts without a catalog file.
SpecFresh == InitFresh /\ [][Next]_vars

\* Two request threads that race, no injected I/O error.
SpecRace == InitRace /\ [][Next]_vars

\* One request thread on a file system that injects I/O errors.
SpecFaulty == InitFaulty /\ [][Next]_vars

\* ----------------------------------------------------------------- properties
\* What a call of load_courses() returns on course file f.
Loaded(f) == LoadCourses(Tracing(<<>>, <<>>, queue), f, "").courses

\* Thread w has answered its request.
Answered(w) == pc[w] = "idle" /\ frame[w].serial > 0

HasSpan(w, name) == \E i \in 1..Len(spans[w]) : spans[w][i].name = name

\* The span of thread w's request that was started last under this name.
SpanOf(w, name) ==
    spans[w][CHOOSE i \in 1..Len(spans[w]) :
                /\ spans[w][i].name = name
                /\ \A j \in (i + 1)..Len(spans[w]) : spans[w][j].name # name]

Attribute(span, key, value) ==
    key \in DOMAIN span.attrs /\ span.attrs[key] = value

\* The save_courses call of thread w's request has returned.
SaveReturned(w) ==
    /\ frame[w].route = "add_course"
    /\ HasSpan(w, "save_course")
    /\ SpanOf(w, "save_course").ends = 1

\* C1: once save_courses(record) has returned, load_courses() returns the
\* records load_courses() returned on the file as the save found it (absent,
\* truncated, or a catalog), unchanged and in order, then the new record.
C1_SaveAppends ==
    \A w \in Workers :
        SaveReturned(w) =>
            Loaded(file) = Append(Loaded(frame[w].found), frame[w].course)

C1_Witness ==
    \E w \in Workers :
        /\ SaveReturned(w)
        /\ Answered(w)
        /\ Len(Loaded(frame[w].found)) >= 1
        /\ Len(Loaded(file)) >= 2
        /\ frame[w].course = Course(FormCS102)

\* C2: from an absent catalog file, after any number of save_courses calls
\* and loads, load_courses() returns exactly the submitted records in
\* submission order, and so did the load of the last /catalog request.
C2_AllSavedInOrder ==
    \A w \in Workers :
        Answered(w) =>
            /\ Loaded(file) = submitted
            /\ frame[w].route = "course_catalog" => resp[w].data = submitted

C2_Witness ==
    /\ Len(submitted) = MaxRequests
    /\ submitted[1] # submitted[2]
    /\ Loaded(file) = submitted
    /\ pc["w1"] = "idle"

Holds(courses, course) == \E i \in 1..Len(courses) : courses[i] = course

\* Two threads' save_courses calls both returned without an I/O error, and
\* both had read the same course file.
Raced(w, v) ==
    /\ w # v
    /\ SaveReturned(w) /\ SaveReturned(v)
    /\ frame[w].readFault = "" /\ ~frame[w].writeFault
    /\ frame[v].readFault = "" /\ ~frame[v].writeFault
    /\ frame[w].found = frame[v].found

\* C3: nothing orders two concurrent save_courses calls: when both read the
\* same catalog, the file is left undecodable or holds that catalog and the
\* record of the call that wrote last, never both records.
C3_LastWriterWins ==
    \A w, v \in Workers :
        Raced(w, v) =>
            LET last == submitted[Len(submitted)]
            IN  /\ last \in {frame[w].course, frame[v].course}
                /\ Loaded(file) \in {Append(Loaded(frame[w].found), last), <<>>}

C3_Witness ==
    \E w, v \in Workers :
        /\ Raced(w, v)
        /\ frame[w].course # frame[v].course
        /\ submitted = <<frame[w].course, frame[v].course>>
        /\ Loaded(file) = Append(Loaded(frame[w].found), frame[v].course)
        /\ ~Holds(Loaded(file), frame[w].course)

\* Thread w's request was GET /course/<code> for a code no record of the
\* catalog it loaded has.
AbsentCode(w) ==
    /\ Answered(w)
    /\ frame[w].route = "course_details"
    /\ \A i \in 1..Len(frame[w].stored) :
          ~(/\ Has(frame[w].stored[i], "code")
            /\ Get(frame[w].stored[i], "code") = frame[w].code)

\* C4: GET /course/<code> for a code no record has answers with a redirect,
\* and its course_details span has ended with status ERROR and
\* http.status_code = 404.
C4_AbsentCodeRedirects ==
    \A w \in Workers :
        AbsentCode(w) =>
            /\ resp[w].kind = "redirect" /\ resp[w].status = 302
            /\ HasSpan(w, "course_details")
            /\ SpanOf(w, "course_details").ends = 1
            /\ SpanOf(w, "course_details").status = "ERROR"
            /\ Attribute(SpanOf(w, "course_details"), "http.status_code", 404)

\* An I/O error hit the load_courses() call of thread w's request (the
\* os.makedirs, the stat, open() or the read failed), or json.load could
\* not decode the text.
ReadFailed(w) ==
    /\ HasSpan(w, "load_courses")
    /\ frame[w].readFault # "" \/ frame[w].readError # ""

\* C5: an I/O error in load_courses or save_courses (os.makedirs, the stat,
\* open(), the read, the write) stays inside them: load_courses returns the
\* empty list with its span ERROR, save_courses returns with its span ERROR
\* and course.saved = False, and the handler answers.  Fails when the stat
\* of os.path.exists fails: the load span is left UNSET.
C5_IoErrorsAbsorbed ==
    \A w \in Workers :
        /\ ReadFailed(w) =>
              /\ SpanOf(w, "load_courses").status = "ERROR"
              /\ pc[w] # "load_return" => SpanOf(w, "load_courses").ends = 1
              /\ frame[w].stored = <<>>
              /\ Answered(w) /\ frame[w].route = "course_catalog" =>
                    resp[w] = RenderTemplate("course_catalog.html", <<>>, <<>>)
              /\ Answered(w) /\ frame[w].route = "course_details" =>
                    resp[w] = Redirect("course_catalog",
                                       <<NotFoundFlash(frame[w].code)>>)
              /\ Answered(w) /\ frame[w].route = "add_course" =>
                    resp[w].kind = "redirect"
        /\ frame[w].writeFault =>
              /\ pc[w] \in {"save_return", "add_respond", "request_end", "idle"}
              /\ pc[w] # "save_return" =>
                    /\ SpanOf(w, "save_course").status = "ERROR"
                    /\ SpanOf(w, "save_course").ends = 1
                    /\ Attribute(SpanOf(w, "save_course"), "course.saved", FALSE)
              /\ Answered(w) => resp[w].kind = "redirect"

\* C6: a POST /add_course whose save failed flashes an error message, and
\* the success message is flashed only when the record was written.
C6_FailureIsFlashed ==
    \A w \in Workers :
        SaveReturned(w) /\ Answered(w) =>
            /\ frame[w].writeFault =>
                  \E i \in 1..Len(resp[w].flashes) : resp[w].flashes[i][1] = "error"
            /\ (\E i \in 1..Len(resp[w].flashes) :
                   resp[w].flashes[i] = AddedFlash(frame[w].course)) =>
                  /\ ~frame[w].writeFault
                  /\ Attribute(SpanOf(w, "save_course"), "course.saved", TRUE)

\* Thread w accepts a request in this step.
Accepting(w) == frame'[w].serial # frame[w].serial

\* Thread w accepts a POST /add_course with a required field empty.
AcceptingInvalid(w) ==
    /\ Accepting(w)
    /\ frame'[w].route = "add_course"
    /\ Range(RequiredFields) \subseteq DOMAIN frame'[w].form
    /\ \E k \in Range(RequiredFields) : frame'[w].form[k] = ""

\* C7: a POST /add_course with a required field empty is answered with
\* status 400, the form rendered again and an error message; the add_course
\* span is ERROR with http.status_code = 400, save_courses is not called and
\* the course file stays as it is.
C7_InvalidFormIs400 ==
    [][\A w \in Workers :
          AcceptingInvalid(w) =>
              /\ resp'[w].status = 400
              /\ resp'[w].kind = "render" /\ resp'[w].target = "add_course.html"
              /\ resp'[w].flashes = <<RequiredFlash>>
              /\ SpanOf(w, "add_course")'.status = "ERROR"
              /\ Attribute(SpanOf(w, "add_course")', "http.status_code", 400)
              /\ ~HasSpan(w, "save_course")'
              /\ file' = file]_vars

\* The spans that ended in this step, thread w's.
EndedNow(w) ==
    {i \in 1..Len(spans'[w]) :
        /\ spans'[w][i].ends = 1
        /\ \/ Accepting(w)
           \/ i > Len(spans[w])
           \/ spans[w][i].ends = 0}

SpanDiscipline ==
    \A w \in Workers :
        /\ pc[w] = "idle" => stack[w] = <<>>
        /\ \A i \in 1..Len(spans[w]) :
              LET span == spans[w][i]
              IN  /\ span.ends <= 1
                  /\ span.late = 0
                  /\ span.ends = 0 <=> i \in Range(stack[w])
                  /\ span.parent # 0 =>
                        span.name \in {"course_catalog", "add_course", "course_details",
                                       "manual-span", "load_courses", "save_course"}
                  /\ span.parent # 0 /\ spans[w][span.parent].ends = 1 =>
                        span.ends = 1

SpansHandedOver ==
    \A w \in Workers :
        EndedNow(w) # {} =>
            \A p \in Range(Processors) :
                LET old == Len(queue[p])
                    new == SubSeq(queue'[p], old + 1, Len(queue'[p]))
                IN  /\ Len(queue'[p]) = old + Cardinality(EndedNow(w))
                    /\ SubSeq(queue'[p], 1, old) = queue[p]
                    /\ \A a \in 1..Len(new) :
                          /\ new[a].id \in EndedNow(w)
                          /\ new[a] = spans'[w][new[a].id]
                          /\ \A b \in 1..Len(new) :
                                /\ a # b => new[a].id # new[b].id
                                /\ new[a].parent = new[b].id => a < b

\* C8: every span a handler or file operation opens is ended exactly once on
\* every path and joins both processors' queues as it ends; a nested span
\* ends before the span around it; no attribute, event or status reaches a
\* span that has ended.
C8_SpansEndOnce == []SpanDiscipline /\ [][SpansHandedOver]_vars

C8_Witness ==
    \E w \in Workers :
        /\ Answered(w)
        /\ frame[w].route = "add_course"
        /\ frame[w].writeFault
        /\ Len(spans[w]) = 4
        /\ \A i \in 1..4 : spans[w][i].ends = 1
        /\ queue["jaeger"] = <<spans[w][4], spans[w][3], spans[w][2], spans[w][1]>>

\* Processor p's worker thread exports in this step.
Exporting(p) == Len(queue'[p]) < Len(queue[p])

\* C9: an export, failed or not, leaves requests, responses and the course
\* file as they are; the batch of a failed export is dropped, the span log
\* left as it was or ending with a document of that batch, whole or cut
\* off; the other processor keeps its queue and exports it on its own.
C9_ExportFailuresContained ==
    [][\A p \in Range(Processors) :
          Exporting(p) =>
              /\ UNCHANGED <<file, resp, pc, frame, spans, stack, submitted>>
              /\ queue'[p] = <<>>
              /\ \A q \in Range(Processors) \ {p} :
                    queue'[q] = queue[q] /\ exported'[q] = exported[q]
              /\ IF exportLeft' < exportLeft
                 THEN /\ exported'[p] = "Dropped"
                      /\ \/ spanLog' = spanLog
                         \/ /\ p = "json"
                            /\ \E i \in 1..Len(queue[p]) :
                                  spanLog'[1].dict = ConvertSpanToDict(queue[p][i])
                 ELSE /\ exported'[p] = "Exported"
                      /\ p = "json" =>
                            spanLog' = <<Document(ConvertSpanToDict(queue[p][Len(queue[p])]),
                                                  TRUE)>>]_vars

C9_Witness ==
    /\ exported["json"] = "Dropped"
    /\ exported["jaeger"] = "Exported"
    /\ exportLeft < MaxExportFailures
    /\ spanLog # <<>> /\ ~spanLog[1].whole
    /\ \E w \in Workers : Answered(w) /\ resp[w].kind = "redirect"

\* Thread w's load_courses() call found no course file.
FoundAbsent(w) ==
    frame[w].serial > 0 /\ HasSpan(w, "load_courses") /\ ~frame[w].found.exists

\* What the claim says of thread w's load_courses() call on an absent file.
LoadedEmpty(w) ==
    /\ Attribute(SpanOf(w, "load_courses"), "course.file_exists", FALSE)
    /\ SpanOf(w, "load_courses").status = "UNSET"
    /\ SpanOf(w, "load_courses").events = <<>>

\* The same when os.makedirs raised in it: the span is ERROR, with the
\* exception recorded and no course.file_exists.
LoadedEmptyOnError(w) ==
    /\ "course.file_exists" \notin DOMAIN SpanOf(w, "load_courses").attrs
    /\ SpanOf(w, "load_courses").status = "ERROR"
    /\ Len(SpanOf(w, "load_courses").events) = 1

\* load_courses() on an absent file returned the empty list, and the
\* handlers answered as for an empty catalog.
AbsentFileReturns(w) ==
    /\ pc[w] # "load_return" => SpanOf(w, "load_courses").ends = 1
    /\ frame[w].stored = <<>>
    /\ Answered(w) /\ frame[w].route = "course_catalog" =>
          resp[w] = RenderTemplate("course_catalog.html", <<>>, <<>>)
    /\ Answered(w) /\ frame[w].route = "course_details" =>
          resp[w] = Redirect("course_catalog", <<NotFoundFlash(frame[w].code)>>)

AbsentFileLoaded ==
    \A w \in Workers : FoundAbsent(w) => LoadedEmpty(w) /\ AbsentFileReturns(w)

AbsentFileLoadedOrFailed ==
    \A w \in Workers :
        FoundAbsent(w) =>
            /\ AbsentFileReturns(w)
            /\ IF frame[w].readFault \in {"", "stat"} THEN LoadedEmpty(w)
               ELSE LoadedEmptyOnError(w)

AbsentFileStaysAbsent ==
    \A w \in Workers :
        /\ ~file.exists
        /\ Accepting(w) \/ (pc[w] = "load_return" /\ pc'[w] # "load_return")
        => file' = file

\* C10 as stated: load_courses() on an absent course file returns the empty
\* list and creates no file; its span carries course.file_exists = False
\* and is not ERROR.  Fails when os.makedirs raises in load_courses().
C10_AbsentFileLoadsEmpty == []AbsentFileLoaded /\ [][AbsentFileStaysAbsent]_vars

\* C10, amended: load_courses() on an absent course file returns the empty
\* list, raises nothing and creates no file; when os.makedirs raised no
\* error its span carries course.file_exists = False and is not ERROR, and
\* when it raised the span is ERROR without course.file_exists.
C10_AbsentFileLoadsEmptyOrFails ==
    []AbsentFileLoadedOrFailed /\ [][AbsentFileStaysAbsent]_vars

C10_Witness ==
    \E w \in Workers :
        /\ Answered(w)
        /\ frame[w].route = "course_catalog"
        /\ ~frame[w].found.exists
        /\ ~file.exists
        /\ frame[w].readFault = ""
        /\ ioLeft < MaxIoFaults
        /\ Attribute(SpanOf(w, "load_courses"), "course.file_exists", FALSE)
        /\ SpanOf(w, "load_courses").status = "UNSET"
        /\ resp[w].data = <<>>

=============================================================================
